---- MODULE Spec2Model ----
(***************************************************************************)
(* Drone pricing model (src/Updated_Code.py, with src/code.py as the       *)
(* earlier single-function version of the same rating pass).               *)
(*                                                                         *)
(* Python values are modelled as tagged records: a number is an exact      *)
(* rational n/d in lowest terms (the reals that the Python ints and floats *)
(* stand for; IEEE rounding is not modelled), a string carries its text,   *)
(* None is the placeholder of get_example_data, and Absent is a key that   *)
(* is not in the dict.  Exceptions are modelled by their Python class      *)
(* name.  The surcharge z is drawn from values for which 1+z is a power of *)
(* two, so that log2(1+z) is an integer and ilf is an exact rational.      *)
(***************************************************************************)
EXTENDS Integers, Sequences, FiniteSets, TLC

VARIABLES data, params, pc, idx, max_rate, err,
          rec, pre, call, ret

vars == <<data, params, pc, idx, max_rate, err, rec, pre, call, ret>>
passVars == <<data, params, pc, idx, max_rate, err>>
unitVars == <<rec, pre, call, ret>>

(* ------------------------------ bounds --------------------------------- *)
MaxDrones == 3
MaxCameras == 4
MaxAir == 2

(* --------------------------- Python values ----------------------------- *)
RECURSIVE Gcd(_, _)
Gcd(a, b) == IF b = 0 THEN a ELSE Gcd(b, a % b)

Abs(a) == IF a < 0 THEN -a ELSE a

Num(n, d) ==
    LET g == Gcd(Abs(n), Abs(d))
        s == IF d < 0 THEN -1 ELSE 1
    IN [t |-> "num", n |-> s * (n \div g), d |-> s * (d \div g), s |-> ""]

Whole(n) == [t |-> "num", n |-> n, d |-> 1, s |-> ""]
Str(x) == [t |-> "str", n |-> 0, d |-> 1, s |-> x]
None == [t |-> "None", n |-> 0, d |-> 1, s |-> ""]
Absent == [t |-> "absent", n |-> 0, d |-> 1, s |-> ""]

IsNum(v) == v.t = "num"
IsStr(v) == v.t = "str"

Add(a, b) == Num(a.n * b.d + b.n * a.d, a.d * b.d)
Sub(a, b) == Num(a.n * b.d - b.n * a.d, a.d * b.d)
Mul(a, b) == Num(a.n * b.n, a.d * b.d)
Div(a, b) == Num(a.n * b.d, a.d * b.n)
Lt(a, b) == a.n * b.d < b.n * a.d
Gt(a, b) == Lt(b, a)
Ge(a, b) == ~Lt(a, b)

(* outcome of a call: the exception raised ("none" when it returns) and    *)
(* the value returned                                                      *)
Return(v) == [exc |-> "none", val |-> v]
Raise(e) == [exc |-> e, val |-> None]

(* --------------------------- rating constants -------------------------- *)
FlatDrone == 150
FlatCamera == 50
BaseLimit == 1000000

hull_base_rate == Num(6, 100)
tpl_base_rate == Num(2, 100)

(* weight_adj_table.get(w, 1) *)
weight_adj_table ==
    [w \in {"0 - 5kg", "5 - 10kg", "10 - 20kg", "> 20kg"} |->
        CASE w = "0 - 5kg" -> Whole(1)
          [] w = "5 - 10kg" -> Num(12, 10)
          [] w = "10 - 20kg" -> Num(16, 10)
          [] w = "> 20kg" -> Num(25, 10)]

(* variant: an unlisted band gets no multiplier at all *)
TableGetNoDefault(table, w, default) ==
    IF w \in DOMAIN table THEN table[w] ELSE Whole(0)

TableGet(table, w, default) ==
    IF w \in DOMAIN table THEN table[w] ELSE default

(* ------------------------------ validation ----------------------------- *)
Required == <<"value", "weight", "tpl_limit", "tpl_excess">>

RECURSIVE ValidateFrom(_, _)
ValidateFrom(drone, k) ==
    IF k > Len(Required) THEN "none"
    ELSE LET key == Required[k] IN
         IF drone[key].t = "absent" THEN "KeyError"
         ELSE IF key = "weight" /\ ~IsStr(drone[key]) THEN "TypeError"
         ELSE IF key # "weight" /\ ~IsNum(drone[key]) THEN "TypeError"
         ELSE IF drone["value"].n < 0 THEN "ValueError"
         ELSE ValidateFrom(drone, k + 1)

validate_drone(drone) == ValidateFrom(drone, 1)

(* --------------------------------- ILF --------------------------------- *)
MaxExp == 2

RECURSIVE PowNat(_, _)
PowNat(r, k) == IF k = 0 THEN Whole(1) ELSE Mul(r, PowNat(r, k - 1))

(* math.log2(y): ValueError (math domain error) for y <= 0 *)
Log2(y) ==
    IF y.n <= 0 THEN Raise("ValueError")
    ELSE Return(CHOOSE k \in -MaxExp..MaxExp :
                    IF k >= 0 THEN y = PowNat(Whole(2), k)
                    ELSE y = Div(Whole(1), PowNat(Whole(2), -k)))

(* variant: the sign of the exponent is flipped *)
PowReciprocal(r, k) ==
    IF k <= 0 THEN Return(PowNat(r, -k))
    ELSE IF r.n = 0 THEN Raise("ZeroDivisionError")
    ELSE Return(Div(Whole(1), PowNat(r, k)))

(* float ** float with an integral exponent k *)
Pow(r, k) ==
    IF k >= 0 THEN Return(PowNat(r, k))
    ELSE IF r.n = 0 THEN Raise("ZeroDivisionError")
    ELSE Return(Div(Whole(1), PowNat(r, -k)))

(* variant: the curve is taken of 1 + x/base_limit *)
IlfOnePlus(x, base_limit, z) ==
    IF base_limit.n = 0 THEN Raise("ZeroDivisionError")
    ELSE LET ilf_core == Add(Whole(1), Div(x, base_limit))
             ilf_power == Log2(Add(Whole(1), z))
         IN IF ilf_power.exc # "none" THEN Raise(ilf_power.exc)
            ELSE Pow(ilf_core, ilf_power.val)

ilf(x, base_limit, z) ==
    IF base_limit.n = 0 THEN Raise("ZeroDivisionError")
    ELSE LET ilf_core == Div(x, base_limit)
             ilf_power == Log2(Add(Whole(1), z))
         IN IF ilf_power.exc # "none" THEN Raise(ilf_power.exc)
            ELSE Pow(ilf_core, ilf_power.val)

ilf_layer(limit, excess, base_limit, z) ==
    LET limit_excess == Add(limit, excess)
        ilf_limit_excess == ilf(limit_excess, base_limit, z)
        ilf_excess == ilf(excess, base_limit, z)
    IN IF ilf_limit_excess.exc # "none" THEN Raise(ilf_limit_excess.exc)
       ELSE IF ilf_excess.exc # "none" THEN Raise(ilf_excess.exc)
       ELSE Return(Sub(ilf_limit_excess.val, ilf_excess.val))

(* ------------------------------- pricing ------------------------------- *)
(* both return the exception raised and the record as the call leaves it   *)
calculate_hull_premium(drone, rate, table) ==
    LET v == validate_drone(drone) IN
    IF v # "none" THEN [exc |-> v, drone |-> drone]
    ELSE LET d1 == [drone EXCEPT !["hull_base_rate"] = rate]
             d2 == [d1 EXCEPT !["hull_weight_adjustment"] =
                        TableGet(table, d1["weight"].s, Whole(1))]
             d3 == [d2 EXCEPT !["hull_final_rate"] =
                        Mul(d2["hull_base_rate"], d2["hull_weight_adjustment"])]
             d4 == [d3 EXCEPT !["hull_premium"] =
                        Mul(d3["value"], d3["hull_final_rate"])]
         IN [exc |-> "none", drone |-> d4]

(* variant: the base rate is stored before the record is validated *)
TplWritesBeforeValidation(drone, rate, base_limit, z) ==
    LET d1 == [drone EXCEPT !["tpl_base_rate"] = rate]
        v == validate_drone(drone)
    IN IF v # "none" THEN [exc |-> v, drone |-> d1]
       ELSE LET d2 == [d1 EXCEPT !["tpl_base_layer_premium"] =
                           Mul(d1["tpl_base_rate"], d1["value"])]
                f == ilf_layer(d2["tpl_limit"], d2["tpl_excess"], base_limit, z)
            IN IF f.exc # "none" THEN [exc |-> f.exc, drone |-> d2]
               ELSE LET d3 == [d2 EXCEPT !["tpl_ilf"] = f.val]
                        d4 == [d3 EXCEPT !["tpl_layer_premium"] =
                                   Mul(d3["tpl_base_layer_premium"], d3["tpl_ilf"])]
                    IN [exc |-> "none", drone |-> d4]

calculate_tpl_premium(drone, rate, base_limit, z) ==
    LET v == validate_drone(drone) IN
    IF v # "none" THEN [exc |-> v, drone |-> drone]
    ELSE LET d1 == [drone EXCEPT !["tpl_base_rate"] = rate]
             d2 == [d1 EXCEPT !["tpl_base_layer_premium"] =
                        Mul(d1["tpl_base_rate"], d1["value"])]
             f == ilf_layer(d2["tpl_limit"], d2["tpl_excess"], base_limit, z)
         IN IF f.exc # "none" THEN [exc |-> f.exc, drone |-> d2]
            ELSE LET d3 == [d2 EXCEPT !["tpl_ilf"] = f.val]
                     d4 == [d3 EXCEPT !["tpl_layer_premium"] =
                                Mul(d3["tpl_base_layer_premium"], d3["tpl_ilf"])]
                 IN [exc |-> "none", drone |-> d4]

(* ---------------------------- camera pricing --------------------------- *)
RECURSIVE MaxRateFrom(_, _, _)
MaxRateFrom(drones, k, acc) ==
    IF k > Len(drones) THEN acc
    ELSE LET d == drones[k] IN
         IF d["has_detachable_camera"]
            /\ (acc = None \/ Gt(d["hull_final_rate"], acc))
         THEN MaxRateFrom(drones, k + 1, d["hull_final_rate"])
         ELSE MaxRateFrom(drones, k + 1, acc)

get_max_hull_rate(drones) == MaxRateFrom(drones, 1, None)

(* value * hull_rate raises TypeError when hull_rate is None; the camera   *)
(* being priced has had hull_rate assigned by then                         *)
RECURSIVE CameraFrom(_, _, _)
CameraFrom(cameras, k, rate) ==
    IF k > Len(cameras) THEN [exc |-> "none", cameras |-> cameras]
    ELSE LET c1 == [cameras[k] EXCEPT !["hull_rate"] = rate] IN
         IF ~IsNum(rate)
         THEN [exc |-> "TypeError", cameras |-> [cameras EXCEPT ![k] = c1]]
         ELSE CameraFrom(
                [cameras EXCEPT ![k] =
                    [c1 EXCEPT !["hull_premium"] = Mul(c1["value"], c1["hull_rate"])]],
                k + 1, rate)

calculate_camera_premium(cameras, rate) == CameraFrom(cameras, 1, rate)

(* ------------------------------ extensions ----------------------------- *)
(* sorted(xs, key, reverse=True): stable, so elements with equal keys keep *)
(* their input order.  The result is the sequence of input positions.      *)
(* variant: an element is placed before the elements of equal key *)
RECURSIVE InsertDescTiesFirst(_, _, _)
InsertDescTiesFirst(s, j, keys) ==
    IF s = <<>> THEN <<j>>
    ELSE IF ~Lt(keys[j], keys[Head(s)]) THEN <<j>> \o s
    ELSE <<Head(s)>> \o InsertDescTiesFirst(Tail(s), j, keys)

RECURSIVE InsertDesc(_, _, _)
InsertDesc(s, j, keys) ==
    IF s = <<>> THEN <<j>>
    ELSE IF Lt(keys[Head(s)], keys[j]) THEN <<j>> \o s
    ELSE <<Head(s)>> \o InsertDesc(Tail(s), j, keys)

RECURSIVE SortedFrom(_, _)
SortedFrom(keys, k) ==
    IF k = 0 THEN <<>> ELSE InsertDesc(SortedFrom(keys, k - 1), k, keys)

sorted_reverse(keys) == SortedFrom(keys, Len(keys))

(* enumerate(sorted_xs): i is 0-based *)
PositionOf(order, k) == CHOOSE p \in 1..Len(order) : order[p] = k

(* variant: the drone cap also overwrites hull_premium with the amount charged *)
CapDronesOverwrite(drones, max_drones) ==
    LET sorted_drones == sorted_reverse([k \in 1..Len(drones) |-> drones[k]["hull_premium"]])
    IN [k \in 1..Len(drones) |->
          LET i == PositionOf(sorted_drones, k) - 1
              charged == IF i >= max_drones THEN Whole(FlatDrone) ELSE drones[k]["hull_premium"]
          IN [drones[k] EXCEPT !["adjusted_hull_premium"] = charged,
                               !["hull_premium"] = charged]]

cap_drones(drones, max_drones) ==
    LET sorted_drones == sorted_reverse([k \in 1..Len(drones) |-> drones[k]["hull_premium"]])
    IN [k \in 1..Len(drones) |->
          LET i == PositionOf(sorted_drones, k) - 1 IN
          [drones[k] EXCEPT !["adjusted_hull_premium"] =
              IF i >= max_drones THEN Whole(FlatDrone) ELSE drones[k]["hull_premium"]]]

(* variant: the camera cap also applies when there are as many cameras as drones *)
CapCamerasAtLeast(cameras, n_drones, max_drones) ==
    IF Len(cameras) >= n_drones
    THEN LET sorted_cameras == sorted_reverse([k \in 1..Len(cameras) |-> cameras[k]["value"]])
         IN [k \in 1..Len(cameras) |->
               LET i == PositionOf(sorted_cameras, k) - 1 IN
               [cameras[k] EXCEPT !["adjusted_hull_premium"] =
                   IF i >= max_drones THEN Whole(FlatCamera) ELSE cameras[k]["hull_premium"]]]
    ELSE [k \in 1..Len(cameras) |->
               [cameras[k] EXCEPT !["adjusted_hull_premium"] = cameras[k]["hull_premium"]]]

(* variant: one camera too many keeps its premium *)
CapCamerasOffByOne(cameras, n_drones, max_drones) ==
    IF Len(cameras) > n_drones
    THEN LET sorted_cameras == sorted_reverse([k \in 1..Len(cameras) |-> cameras[k]["value"]])
         IN [k \in 1..Len(cameras) |->
               LET i == PositionOf(sorted_cameras, k) - 1 IN
               [cameras[k] EXCEPT !["adjusted_hull_premium"] =
                   IF i > max_drones THEN Whole(FlatCamera) ELSE cameras[k]["hull_premium"]]]
    ELSE [k \in 1..Len(cameras) |->
               [cameras[k] EXCEPT !["adjusted_hull_premium"] = cameras[k]["hull_premium"]]]

cap_cameras(cameras, n_drones, max_drones) ==
    IF Len(cameras) > n_drones
    THEN LET sorted_cameras == sorted_reverse([k \in 1..Len(cameras) |-> cameras[k]["value"]])
         IN [k \in 1..Len(cameras) |->
               LET i == PositionOf(sorted_cameras, k) - 1 IN
               [cameras[k] EXCEPT !["adjusted_hull_premium"] =
                   IF i >= max_drones THEN Whole(FlatCamera) ELSE cameras[k]["hull_premium"]]]
    ELSE [k \in 1..Len(cameras) |->
               [cameras[k] EXCEPT !["adjusted_hull_premium"] = cameras[k]["hull_premium"]]]

applying_extensions(d) ==
    LET max_drones == d["max_drones_in_air"] IN
    [d EXCEPT !["drones"] = cap_drones(d["drones"], max_drones),
              !["detachable_cameras"] =
                  cap_cameras(d["detachable_cameras"], Len(d["drones"]), max_drones)]

(* ------------------------------ aggregation ---------------------------- *)
RECURSIVE SumFrom(_, _, _)
SumFrom(xs, field, k) ==
    IF k = 0 THEN Whole(0) ELSE Add(SumFrom(xs, field, k - 1), xs[k][field])

sum(xs, field) == SumFrom(xs, field, Len(xs))

NoPrem == [drones_hull |-> None, drones_tpl |-> None, cameras_hull |-> None, total |-> None]

(* variant: a drone charged the flat rate contributes no TPL premium *)
RECURSIVE SumCappedTpl(_, _)
SumCappedTpl(xs, k) ==
    IF k = 0 THEN Whole(0)
    ELSE IF xs[k]["adjusted_hull_premium"] = xs[k]["hull_premium"]
    THEN Add(SumCappedTpl(xs, k - 1), xs[k]["tpl_layer_premium"])
    ELSE SumCappedTpl(xs, k - 1)

NetPremiumsCappedTpl(d) ==
    LET dh == sum(d["drones"], "adjusted_hull_premium")
        dt == SumCappedTpl(d["drones"], Len(d["drones"]))
        ch == sum(d["detachable_cameras"], "adjusted_hull_premium")
    IN [drones_hull |-> dh, drones_tpl |-> dt, cameras_hull |-> ch,
        total |-> Add(Add(dh, dt), ch)]

net_premiums(d) ==
    LET dh == sum(d["drones"], "adjusted_hull_premium")
        dt == sum(d["drones"], "tpl_layer_premium")
        ch == sum(d["detachable_cameras"], "adjusted_hull_premium")
    IN [drones_hull |-> dh, drones_tpl |-> dt, cameras_hull |-> ch,
        total |-> Add(Add(dh, dt), ch)]

(* variant: the gross total leaves out the camera line *)
GrossTotalWithoutCameras(net, brokerage) ==
    LET denom == Sub(Whole(1), brokerage) IN
    IF denom.n = 0 THEN [exc |-> "ZeroDivisionError", gross |-> NoPrem]
    ELSE LET dh == Div(net.drones_hull, denom)
             dt == Div(net.drones_tpl, denom)
             ch == Div(net.cameras_hull, denom)
         IN [exc |-> "none",
             gross |-> [drones_hull |-> dh, drones_tpl |-> dt, cameras_hull |-> ch,
                        total |-> Add(dh, dt)]]

(* the first division raises ZeroDivisionError when 1 - brokerage = 0 *)
gross_premiums(net, brokerage) ==
    LET denom == Sub(Whole(1), brokerage) IN
    IF denom.n = 0 THEN [exc |-> "ZeroDivisionError", gross |-> NoPrem]
    ELSE LET dh == Div(net.drones_hull, denom)
             dt == Div(net.drones_tpl, denom)
             ch == Div(net.cameras_hull, denom)
         IN [exc |-> "none",
             gross |-> [drones_hull |-> dh, drones_tpl |-> dt, cameras_hull |-> ch,
                        total |-> Add(Add(dh, dt), ch)]]

(* -------------------------------- inputs -------------------------------- *)
Drone(value, weight, flag, limit, excess) ==
    [value |-> value, weight |-> weight, has_detachable_camera |-> flag,
     tpl_limit |-> limit, tpl_excess |-> excess,
     hull_base_rate |-> None, hull_weight_adjustment |-> None,
     hull_final_rate |-> None, hull_premium |-> None,
     tpl_base_rate |-> None, tpl_base_layer_premium |-> None,
     tpl_ilf |-> None, tpl_layer_premium |-> None,
     adjusted_hull_premium |-> Absent]

Camera(value) ==
    [value |-> Whole(value), hull_rate |-> None, hull_premium |-> None,
     adjusted_hull_premium |-> Absent]

(* drones 1 and 2 of get_example_data *)
DroneA == Drone(Whole(10000), Str("0 - 5kg"), TRUE, Whole(1000000), Whole(0))
DroneB == Drone(Whole(12000), Str("10 - 20kg"), FALSE, Whole(4000000), Whole(1000000))
(* two different drones with the same hull premium, one in an unlisted band *)
DroneD == Drone(Whole(12000), Str("2 - 3kg"), FALSE, Whole(1000000), Whole(0))
DroneE == Drone(Whole(10000), Str("5 - 10kg"), TRUE, Whole(1000000), Whole(1000000))
(* a record without tpl_excess *)
DroneBad == [DroneA EXCEPT !["tpl_excess"] = Absent]

(* a record with a negative value *)
DroneNeg == [DroneB EXCEPT !["value"] = Whole(-5)]

DroneInputs == {DroneA, DroneB, DroneD, DroneE, DroneBad, DroneNeg}
CameraValues == {5000, 2500, 1500, 2000}
Brokerages == {Whole(0), Num(3, 10), Whole(1), Num(3, 2)}
(* main sets base_limit = 1000000 and z = 0.2; log2(1.2) is irrational, so *)
(* the pass is run with the surcharge z = 1, whose exponent log2(2) is 1   *)
PassParams == {[z |-> Whole(1), base_limit |-> Whole(BaseLimit)]}

BSeq(S, n) == UNION {[1..k -> S] : k \in 0..n}

Batch(drones, cameras, brokerage, max_drones) ==
    [brokerage |-> brokerage, max_drones_in_air |-> max_drones,
     drones |-> drones, detachable_cameras |-> [k \in 1..Len(cameras) |-> Camera(cameras[k])],
     gross_prem |-> NoPrem, net_prem |-> NoPrem]

(* fleets of every shape with at most one camera under every brokerage *)
FleetBatch(d) ==
    \E ds \in BSeq(DroneInputs, MaxDrones), cs \in BSeq({5000}, 1),
       b \in Brokerages, m \in 1..MaxAir : d = Batch(ds, cs, b, m)

(* camera lists of every shape over fleets of the first example drone *)
CameraBatch(d) ==
    \E ds \in BSeq({DroneA}, MaxDrones), cs \in BSeq(CameraValues, MaxCameras),
       m \in 1..MaxAir : d = Batch(ds, cs, Num(3, 10), m)

NoCall == [fn |-> "none", x |-> None, excess |-> None, base_limit |-> None, z |-> None]

UnitIdle ==
    /\ rec = DroneA
    /\ pre = DroneA
    /\ call = NoCall
    /\ ret = Return(None)

(* ------------------------------ rating pass ---------------------------- *)
(* position in main: the loop over the drones, or the camera stage after it *)
LoopHead(k, drones) == IF k > Len(drones) THEN "max_rate" ELSE "hull"

Init ==
    /\ (FleetBatch(data) \/ CameraBatch(data))
    /\ params \in PassParams
    /\ pc = LoopHead(1, data["drones"])
    /\ idx = 1
    /\ max_rate = None
    /\ err = "none"
    /\ UnitIdle

(* variant: a drone that fails validation is skipped *)
PriceHullSkipsInvalid ==
    /\ pc = "hull"
    /\ LET r == calculate_hull_premium(data["drones"][idx], hull_base_rate, weight_adj_table) IN
       /\ data' = [data EXCEPT !["drones"][idx] = r.drone]
       /\ err' = "none"
       /\ pc' = IF r.exc # "none" THEN LoopHead(idx + 1, data["drones"]) ELSE "tpl"
       /\ idx' = IF r.exc # "none" THEN idx + 1 ELSE idx
    /\ UNCHANGED <<params, max_rate, unitVars>>

PriceHull ==
    /\ pc = "hull"
    /\ LET r == calculate_hull_premium(data["drones"][idx], hull_base_rate, weight_adj_table) IN
       /\ data' = [data EXCEPT !["drones"][idx] = r.drone]
       /\ err' = r.exc
       /\ pc' = IF r.exc # "none" THEN "raised" ELSE "tpl"
    /\ UNCHANGED <<params, idx, max_rate, unitVars>>

PriceTpl ==
    /\ pc = "tpl"
    /\ LET r == calculate_tpl_premium(data["drones"][idx], tpl_base_rate,
                                      params.base_limit, params.z) IN
       /\ data' = [data EXCEPT !["drones"][idx] = r.drone]
       /\ err' = r.exc
       /\ pc' = IF r.exc # "none" THEN "raised" ELSE LoopHead(idx + 1, data["drones"])
       /\ idx' = IF r.exc # "none" THEN idx ELSE idx + 1
    /\ UNCHANGED <<params, max_rate, unitVars>>

MaxRate ==
    /\ pc = "max_rate"
    /\ max_rate' = get_max_hull_rate(data["drones"])
    /\ pc' = "camera"
    /\ UNCHANGED <<data, params, idx, err, unitVars>>

PriceCameras ==
    /\ pc = "camera"
    /\ LET r == calculate_camera_premium(data["detachable_cameras"], max_rate) IN
       /\ data' = [data EXCEPT !["detachable_cameras"] = r.cameras]
       /\ err' = r.exc
       /\ pc' = IF r.exc # "none" THEN "raised" ELSE "extensions"
    /\ UNCHANGED <<params, idx, max_rate, unitVars>>

Extensions ==
    /\ pc = "extensions"
    /\ data' = applying_extensions(data)
    /\ pc' = "net"
    /\ UNCHANGED <<params, idx, max_rate, err, unitVars>>

AggregateNet ==
    /\ pc = "net"
    /\ data' = [data EXCEPT !["net_prem"] = net_premiums(data)]
    /\ pc' = "gross"
    /\ UNCHANGED <<params, idx, max_rate, err, unitVars>>

AggregateGross ==
    /\ pc = "gross"
    /\ LET r == gross_premiums(data["net_prem"], data["brokerage"]) IN
       /\ data' = [data EXCEPT !["gross_prem"] = r.gross]
       /\ err' = r.exc
       /\ pc' = IF r.exc # "none" THEN "raised" ELSE "done"
    /\ UNCHANGED <<params, idx, max_rate, unitVars>>

Next ==
    \/ PriceHull
    \/ PriceTpl
    \/ MaxRate
    \/ PriceCameras
    \/ Extensions
    \/ AggregateNet
    \/ AggregateGross

Spec == Init /\ [][Next]_vars

(* ------------------------ calls on single records --------------------- *)
(* The pricing functions called directly, in any order, on records of any  *)
(* shape: fields absent or of the wrong type, computed fields unset or     *)
(* already written by an earlier pass.                                     *)
PricedA ==
    calculate_tpl_premium(calculate_hull_premium(DroneA, hull_base_rate, weight_adj_table).drone,
                          tpl_base_rate, Whole(BaseLimit), Whole(1)).drone

UnitValues == {Absent, None, Whole(-5), Whole(10000)}
UnitWeights == {Absent, Whole(5), Str("0 - 5kg"), Str("5 - 10kg"), Str("2 - 3kg")}
UnitLimits == {Absent, Str("1m"), Whole(1000000)}
UnitExcesses == {Absent, None, Whole(0), Whole(1000000)}

UnitDrone(r) ==
    \E base \in {DroneA, PricedA}, v \in UnitValues, w \in UnitWeights,
       l \in UnitLimits, e \in UnitExcesses :
        r = [base EXCEPT !["value"] = v, !["weight"] = w,
                         !["tpl_limit"] = l, !["tpl_excess"] = e]

XValues == {Whole(0), Whole(1000000), Whole(2000000)}
BaseLimits == {Whole(-BaseLimit), Whole(0), Whole(BaseLimit)}
Surcharges == {Whole(-2), Whole(-1), Num(-1, 2), Whole(0), Whole(1), Whole(3)}

PassIdle ==
    /\ data = Batch(<<>>, <<>>, Num(3, 10), 1)
    /\ params \in PassParams
    /\ pc = "idle"
    /\ idx = 1
    /\ max_rate = None
    /\ err = "none"

UnitInit ==
    /\ UnitDrone(rec)
    /\ pre = rec
    /\ call = NoCall
    /\ ret = Return(None)
    /\ PassIdle

CallValidate ==
    /\ pc = "idle"
    /\ call' = [NoCall EXCEPT !.fn = "validate_drone"]
    /\ pre' = rec
    /\ ret' = [exc |-> validate_drone(rec), val |-> None]
    /\ UNCHANGED <<rec, passVars>>

CallHull ==
    /\ pc = "idle"
    /\ LET r == calculate_hull_premium(rec, hull_base_rate, weight_adj_table) IN
       /\ call' = [NoCall EXCEPT !.fn = "calculate_hull_premium"]
       /\ pre' = rec
       /\ rec' = r.drone
       /\ ret' = [exc |-> r.exc, val |-> None]
    /\ UNCHANGED passVars

CallTpl ==
    /\ pc = "idle"
    /\ \E b \in BaseLimits, z \in Surcharges :
         LET r == calculate_tpl_premium(rec, tpl_base_rate, b, z) IN
         /\ call' = [NoCall EXCEPT !.fn = "calculate_tpl_premium", !.base_limit = b, !.z = z]
         /\ pre' = rec
         /\ rec' = r.drone
         /\ ret' = [exc |-> r.exc, val |-> None]
    /\ UNCHANGED passVars

UnitNext ==
    \/ CallValidate
    \/ CallHull
    \/ CallTpl

UnitSpec == UnitInit /\ [][UnitNext]_vars

(* ------------------------- calls of the ILF curve ---------------------- *)
(* ilf and ilf_layer applied to arguments drawn at the start               *)
IlfInit ==
    /\ \E x \in XValues, e \in XValues, b \in BaseLimits, z \in Surcharges :
         call = [fn |-> "none", x |-> x, excess |-> e, base_limit |-> b, z |-> z]
    /\ rec = DroneA
    /\ pre = DroneA
    /\ ret = Return(None)
    /\ PassIdle

CallIlf ==
    /\ pc = "idle"
    /\ call' = [call EXCEPT !.fn = "ilf"]
    /\ ret' = ilf(call.x, call.base_limit, call.z)
    /\ UNCHANGED <<rec, pre, passVars>>

CallIlfLayer ==
    /\ pc = "idle"
    /\ call' = [call EXCEPT !.fn = "ilf_layer"]
    /\ ret' = ilf_layer(call.x, call.excess, call.base_limit, call.z)
    /\ UNCHANGED <<rec, pre, passVars>>

IlfNext ==
    \/ CallIlf
    \/ CallIlfLayer

IlfSpec == IlfInit /\ [][IlfNext]_vars

(* ------------------------------ properties ----------------------------- *)
Drones == data["drones"]
Cameras == data["detachable_cameras"]
AfterExtensions == pc \in {"net", "gross", "done"}

(* number of units ranked ahead of unit k: a larger key, or the same key   *)
(* earlier in the input                                                    *)
Ahead(xs, field, k) ==
    Cardinality({j \in 1..Len(xs) :
        \/ Gt(xs[j][field], xs[k][field])
        \/ (xs[j][field] = xs[k][field] /\ j < k)})

(* C1: after applying_extensions, the drones among the first               *)
(* max_drones_in_air by hull_premium descending (ties in input order) have *)
(* adjusted_hull_premium = hull_premium, and every other drone has 150.    *)
DroneCap ==
    AfterExtensions =>
        \A k \in 1..Len(Drones) :
            Drones[k]["adjusted_hull_premium"] =
                IF Ahead(Drones, "hull_premium", k) < data["max_drones_in_air"]
                THEN Drones[k]["hull_premium"] ELSE Whole(150)

(* two drones with equal premiums, the earlier kept and the later flattened *)
DroneCapWitness ==
    /\ AfterExtensions
    /\ \E j, k \in 1..Len(Drones) :
        /\ j < k
        /\ Drones[j] # Drones[k]
        /\ Drones[j]["hull_premium"] = Drones[k]["hull_premium"]
        /\ Drones[j]["adjusted_hull_premium"] = Drones[j]["hull_premium"]
        /\ Drones[k]["adjusted_hull_premium"] = Whole(150)
        /\ Drones[k]["hull_premium"] # Whole(150)

(* C2: cameras are flattened only when there are more cameras than drones; *)
(* then the first max_drones_in_air by value descending (ties in input     *)
(* order) keep hull_premium and the others get 50; otherwise every camera  *)
(* keeps hull_premium.                                                     *)
CameraCap ==
    AfterExtensions =>
        \A k \in 1..Len(Cameras) :
            Cameras[k]["adjusted_hull_premium"] =
                IF Len(Cameras) > Len(Drones)
                   /\ Ahead(Cameras, "value", k) >= data["max_drones_in_air"]
                THEN Whole(50) ELSE Cameras[k]["hull_premium"]

(* the cap is active and splits two cameras of equal value *)
CameraCapWitness ==
    /\ AfterExtensions
    /\ Len(Cameras) > Len(Drones)
    /\ \E j, k \in 1..Len(Cameras) :
        /\ j < k
        /\ Cameras[j]["value"] = Cameras[k]["value"]
        /\ Cameras[j]["adjusted_hull_premium"] = Cameras[j]["hull_premium"]
        /\ Cameras[k]["adjusted_hull_premium"] = Whole(50)
        /\ Cameras[k]["hull_premium"] # Whole(50)

(* the batch of the camera-cap example: 4 cameras valued 5000, 2500, 1500, *)
(* 2000 in that order, 3 drones, max_drones_in_air = 2                     *)
CameraExampleBatch ==
    /\ AfterExtensions
    /\ Len(Drones) = 3
    /\ data["max_drones_in_air"] = 2
    /\ Len(Cameras) = 4
    /\ Cameras[1]["value"] = Whole(5000)
    /\ Cameras[2]["value"] = Whole(2500)
    /\ Cameras[3]["value"] = Whole(1500)
    /\ Cameras[4]["value"] = Whole(2000)

KeepsRate(k) ==
    Cameras[k]["adjusted_hull_premium"] = Mul(Cameras[k]["value"], max_rate)

(* C3 as stated: in the example the cameras valued 5000 and 2000 keep      *)
(* value x r and the cameras valued 2500 and 1500 get 50.                  *)
CameraExampleAsStated ==
    CameraExampleBatch =>
        /\ KeepsRate(1)
        /\ KeepsRate(4)
        /\ Cameras[2]["adjusted_hull_premium"] = Whole(50)
        /\ Cameras[3]["adjusted_hull_premium"] = Whole(50)

(* C3 amended: in the example the cameras valued 5000 and 2500 keep        *)
(* value x r and the cameras valued 1500 and 2000 get 50.                  *)
CameraExample ==
    CameraExampleBatch =>
        /\ KeepsRate(1)
        /\ KeepsRate(2)
        /\ Cameras[3]["adjusted_hull_premium"] = Whole(50)
        /\ Cameras[4]["adjusted_hull_premium"] = Whole(50)

CameraExampleWitness ==
    /\ CameraExampleBatch
    /\ IsNum(max_rate)
    /\ \A k \in 1..4 : Mul(Cameras[k]["value"], max_rate) # Whole(50)

RECURSIVE Total(_)
Total(vs) == IF vs = <<>> THEN Whole(0) ELSE Add(Head(vs), Total(Tail(vs)))

(* the TPL layer premium of a drone from its inputs alone *)
FullTpl(d) ==
    Mul(Mul(tpl_base_rate, d["value"]),
        ilf_layer(d["tpl_limit"], d["tpl_excess"], params.base_limit, params.z).val)

(* C4: at the end of a completed pass net.drones_hull and net.cameras_hull *)
(* are the sums of adjusted_hull_premium, and net.drones_tpl is the sum of *)
(* every drone's full tpl_layer_premium, flattened drones included.        *)
NetAggregation ==
    pc = "done" =>
        /\ data["net_prem"].drones_hull =
              Total([k \in 1..Len(Drones) |-> Drones[k]["adjusted_hull_premium"]])
        /\ data["net_prem"].cameras_hull =
              Total([k \in 1..Len(Cameras) |-> Cameras[k]["adjusted_hull_premium"]])
        /\ data["net_prem"].drones_tpl =
              Total([k \in 1..Len(Drones) |-> FullTpl(Drones[k])])
        /\ \A k \in 1..Len(Drones) : Drones[k]["tpl_layer_premium"] = FullTpl(Drones[k])

(* a completed pass with a flattened drone that has a TPL premium *)
NetAggregationWitness ==
    /\ pc = "done"
    /\ \E k \in 1..Len(Drones) :
        /\ Drones[k]["adjusted_hull_premium"] = Whole(150)
        /\ Drones[k]["hull_premium"] # Whole(150)
        /\ Gt(Drones[k]["tpl_layer_premium"], Whole(0))

InUnitInterval(b) == Ge(b, Whole(0)) /\ Lt(b, Whole(1))

(* C5: for a completed pass with brokerage in [0,1), net.total is the sum  *)
(* of the three net lines, each gross line times (1 - brokerage) is the    *)
(* matching net line, and so is gross.total against net.total.             *)
TotalsConsistency ==
    (pc = "done" /\ InUnitInterval(data["brokerage"])) =>
        LET net == data["net_prem"]
            gross == data["gross_prem"]
            keep == Sub(Whole(1), data["brokerage"])
        IN /\ net.total = Add(net.drones_hull, Add(net.drones_tpl, net.cameras_hull))
           /\ Mul(gross.drones_hull, keep) = net.drones_hull
           /\ Mul(gross.drones_tpl, keep) = net.drones_tpl
           /\ Mul(gross.cameras_hull, keep) = net.cameras_hull
           /\ Mul(gross.total, keep) = net.total

(* a completed pass with a positive brokerage and three positive net lines *)
TotalsConsistencyWitness ==
    /\ pc = "done"
    /\ Gt(data["brokerage"], Whole(0))
    /\ InUnitInterval(data["brokerage"])
    /\ Gt(data["net_prem"].drones_hull, Whole(0))
    /\ Gt(data["net_prem"].drones_tpl, Whole(0))
    /\ Gt(data["net_prem"].cameras_hull, Whole(0))

(* C6: with brokerage >= 1 the gross-premium step fails and no gross_prem  *)
(* line is populated.                                                      *)
BrokerageGuard ==
    Ge(data["brokerage"], Whole(1)) =>
        /\ pc # "done"
        /\ data["gross_prem"] = NoPrem

(* the outcome the validation contract gives for a record *)
ContractOutcome(d) ==
    IF \E k \in 1..Len(Required) : d[Required[k]] = Absent THEN "KeyError"
    ELSE IF ~IsStr(d["weight"]) \/ ~IsNum(d["value"])
            \/ ~IsNum(d["tpl_limit"]) \/ ~IsNum(d["tpl_excess"]) THEN "TypeError"
    ELSE IF Lt(d["value"], Whole(0)) THEN "ValueError"
    ELSE "none"

(* C7: validate_drone fails with MissingField (KeyError) whenever a        *)
(* required field is absent, whatever the other fields contain; with       *)
(* TypeMismatch (TypeError) on a field of the wrong type; with             *)
(* InvalidValue (ValueError) on a negative value; and passes otherwise.    *)
ValidationOutcome ==
    call.fn = "validate_drone" => ret.exc = ContractOutcome(pre)

(* C8: a pricing call on a record that fails validation raises the         *)
(* validation error and leaves every field of the record as it was.        *)
NoMutationOnFailure ==
    (call.fn \in {"calculate_hull_premium", "calculate_tpl_premium"}
        /\ validate_drone(pre) # "none") =>
        /\ rec = pre
        /\ ret.exc = validate_drone(pre)

(* TPL pricing has failed on a priced record that lacks tpl_excess *)
NoMutationOnFailureWitness ==
    /\ call.fn = "calculate_tpl_premium"
    /\ pre["tpl_excess"] = Absent
    /\ IsNum(pre["value"])
    /\ IsNum(pre["hull_premium"])
    /\ ret.exc = "KeyError"
    /\ rec = pre

NoFlaggedDrone == \A k \in 1..Len(Drones) : ~Drones[k]["has_detachable_camera"]
LookupDone ==
    \/ pc \in {"camera", "extensions", "net", "gross", "done"}
    \/ (pc = "raised" /\ idx > Len(Drones))

(* C9: when no drone has the detachable-camera flag, the pass ends at the  *)
(* max-rate lookup with an explicit NoApplicableRate error, with cameras   *)
(* and without.                                                            *)
NoApplicableRate ==
    (NoFlaggedDrone /\ LookupDone) => (pc = "raised" /\ err = "NoApplicableRate")

(* C10: ilf and ilf_layer raise an error, and return no value, whenever    *)
(* z <= -1 or base_limit <= 0.                                             *)
IlfParameterGuard ==
    (call.fn \in {"ilf", "ilf_layer"}
        /\ (~Gt(call.z, Whole(-1)) \/ ~Gt(call.base_limit, Whole(0)))) =>
        ret.exc \in {"ValueError", "ZeroDivisionError"}

(* an ilf call with x >= 0 and base_limit > 0 *)
IlfCallInDomain ==
    /\ call.fn = "ilf"
    /\ Ge(call.x, Whole(0))
    /\ Gt(call.base_limit, Whole(0))

(* the value returned is >= 0 and no larger than ilf of any larger x *)
IlfNonNegativeMonotone ==
    /\ ret.exc = "none"
    /\ Ge(ret.val, Whole(0))
    /\ \A x2 \in XValues :
          Ge(x2, call.x) =>
              LET r2 == ilf(x2, call.base_limit, call.z) IN
              r2.exc = "none" /\ Ge(r2.val, ret.val)

(* C11 as stated: for x >= 0, base_limit > 0 and z > -1, ilf returns a     *)
(* value >= 0 and is non-decreasing in x.                                  *)
IlfMonotoneAsStated ==
    (IlfCallInDomain /\ Gt(call.z, Whole(-1))) => IlfNonNegativeMonotone

(* C11 amended: for x >= 0, base_limit > 0 and z >= 0, ilf returns a value *)
(* >= 0 and is non-decreasing in x.                                        *)
IlfMonotone ==
    (IlfCallInDomain /\ Ge(call.z, Whole(0))) => IlfNonNegativeMonotone

(* a call with a positive result that a larger x strictly exceeds *)
IlfMonotoneWitness ==
    /\ IlfCallInDomain
    /\ Gt(call.z, Whole(0))
    /\ ret.exc = "none"
    /\ Gt(ret.val, Whole(0))
    /\ \E x2 \in XValues :
          Gt(x2, call.x) /\ Gt(ilf(x2, call.base_limit, call.z).val, ret.val)

(* ilf(0, ...) is 0, and a layer with no excess is ilf of its limit *)
IlfZeroOutcome ==
    /\ (call.fn = "ilf" /\ call.x = Whole(0)) => ret = Return(Whole(0))
    /\ (call.fn = "ilf_layer" /\ call.excess = Whole(0)) =>
          ret = ilf(call.x, call.base_limit, call.z)

(* C12 as stated: for base_limit > 0 and z > -0.5 (z = 0 included),        *)
(* ilf(0, base_limit, z) = 0 and ilf_layer(limit, 0, base_limit, z) =      *)
(* ilf(limit, base_limit, z).                                              *)
IlfAtZeroAsStated ==
    (Gt(call.base_limit, Whole(0)) /\ Gt(call.z, Num(-1, 2))) => IlfZeroOutcome

(* C12 amended: the same for base_limit > 0 and z > 0.                     *)
IlfAtZero ==
    (Gt(call.base_limit, Whole(0)) /\ Gt(call.z, Whole(0))) => IlfZeroOutcome

(* a layer from 0 with a positive limit has been computed *)
IlfAtZeroWitness ==
    /\ call.fn = "ilf_layer"
    /\ call.excess = Whole(0)
    /\ Gt(call.x, Whole(0))
    /\ Gt(call.base_limit, Whole(0))
    /\ Gt(call.z, Whole(0))
    /\ ret.exc = "none"
    /\ Gt(ret.val, Whole(0))

(* the multiplier of a weight band: the four listed bands, and 1 for any other *)
BandMultiplier(w) ==
    CASE w = "0 - 5kg" -> Whole(1)
      [] w = "5 - 10kg" -> Num(6, 5)
      [] w = "10 - 20kg" -> Num(8, 5)
      [] w = "> 20kg" -> Num(5, 2)
      [] OTHER -> Whole(1)

(* C13: on a valid record calculate_hull_premium returns without error and *)
(* sets hull_base_rate to the supplied rate, hull_weight_adjustment to the *)
(* band's multiplier (1 for an unlisted band), hull_final_rate to their    *)
(* product and hull_premium to value x hull_final_rate, leaving every      *)
(* other field as it was; value 10000 in band '0 - 5kg' at rate 0.06 gives *)
(* hull_final_rate 0.06 and hull_premium 600.                              *)
HullPricingResult ==
    (call.fn = "calculate_hull_premium" /\ validate_drone(pre) = "none") =>
        LET adj == BandMultiplier(pre["weight"].s)
            final == Mul(Num(6, 100), adj)
        IN /\ ret.exc = "none"
           /\ rec = [pre EXCEPT !["hull_base_rate"] = Num(6, 100),
                                !["hull_weight_adjustment"] = adj,
                                !["hull_final_rate"] = final,
                                !["hull_premium"] = Mul(pre["value"], final)]
           /\ (pre["value"] = Whole(10000) /\ pre["weight"] = Str("0 - 5kg")) =>
                 /\ rec["hull_final_rate"] = Num(6, 100)
                 /\ rec["hull_premium"] = Whole(600)

(* a valid drone in an unlisted band has been priced with multiplier 1 *)
HullPricingResultWitness ==
    /\ call.fn = "calculate_hull_premium"
    /\ validate_drone(pre) = "none"
    /\ pre["weight"] = Str("2 - 3kg")
    /\ pre["hull_premium"] = None
    /\ rec["hull_weight_adjustment"] = Whole(1)
    /\ rec["hull_premium"] = Whole(600)

InvalidDrones == {k \in 1..Len(Drones) : validate_drone(Drones[k]) # "none"}
FirstInvalid == CHOOSE k \in InvalidDrones : \A j \in InvalidDrones : k <= j

(* C15: when a drone of the batch fails validation, the pass reaches that  *)
(* drone without skipping it, ends there with its validation error, runs   *)
(* no later stage and leaves every net_prem and gross_prem field unset.    *)
InvalidAborts ==
    InvalidDrones # {} =>
        /\ pc \in {"hull", "tpl", "raised"}
        /\ idx <= FirstInvalid
        /\ pc = "tpl" => idx < FirstInvalid
        /\ pc = "raised" =>
              /\ idx = FirstInvalid
              /\ err = validate_drone(Drones[FirstInvalid])
        /\ data["net_prem"] = NoPrem
        /\ data["gross_prem"] = NoPrem
        /\ max_rate = None
        /\ \A c \in 1..Len(Cameras) :
              /\ Cameras[c]["hull_premium"] = None
              /\ Cameras[c]["adjusted_hull_premium"] = Absent
        /\ \A k \in 1..Len(Drones) : Drones[k]["adjusted_hull_premium"] = Absent

(* the pass has ended at an invalid drone that follows a priced one *)
InvalidAbortsWitness ==
    /\ InvalidDrones # {}
    /\ pc = "raised"
    /\ idx > 1
    /\ idx = FirstInvalid
    /\ err = "KeyError"
    /\ IsNum(Drones[1]["tpl_layer_premium"])
    /\ Len(Cameras) > 0

(* the stage a position of main belongs to; the max-rate lookup opens the *)
(* camera stage, the net and gross totals form the aggregation stage      *)
StageOf(p) ==
    CASE p = "hull" -> 1
      [] p = "tpl" -> 2
      [] p \in {"max_rate", "camera"} -> 3
      [] p = "extensions" -> 4
      [] p \in {"net", "gross"} -> 5
      [] OTHER -> 6

(* the position of main in the order: drone i's hull pricing, drone i's TPL *)
(* pricing, then the batch-wide steps after the last drone                  *)
Rank(p, i, n) ==
    CASE p = "hull" -> 2 * i - 1
      [] p = "tpl" -> 2 * i
      [] p = "max_rate" -> 2 * n + 1
      [] p = "camera" -> 2 * n + 2
      [] p = "extensions" -> 2 * n + 3
      [] p = "net" -> 2 * n + 4
      [] p = "gross" -> 2 * n + 5
      [] OTHER -> 2 * n + 6

IsSet(v) == v # None /\ v # Absent

DroneComputed ==
    {"hull_base_rate", "hull_weight_adjustment", "hull_final_rate", "hull_premium",
     "tpl_base_rate", "tpl_base_layer_premium", "tpl_ilf", "tpl_layer_premium",
     "adjusted_hull_premium"}
CameraComputed == {"hull_rate", "hull_premium", "adjusted_hull_premium"}
PremComputed == {"drones_hull", "drones_tpl", "cameras_hull", "total"}

(* a step leaves every computed field that holds a value as it is *)
WriteOnceStep ==
    /\ Len(Drones') = Len(Drones)
    /\ Len(Cameras') = Len(Cameras)
    /\ \A k \in 1..Len(Drones) : \A f \in DroneComputed :
          IsSet(Drones[k][f]) => Drones'[k][f] = Drones[k][f]
    /\ \A c \in 1..Len(Cameras) : \A f \in CameraComputed :
          IsSet(Cameras[c][f]) => Cameras'[c][f] = Cameras[c][f]
    /\ \A f \in PremComputed :
          /\ IsSet(data["net_prem"][f]) => data'["net_prem"][f] = data["net_prem"][f]
          /\ IsSet(data["gross_prem"][f]) => data'["gross_prem"][f] = data["gross_prem"][f]

(* the fields a step of main is about to read hold numbers *)
ReadAfterWrite ==
    /\ pc = "tpl" => IsNum(Drones[idx]["hull_premium"])
    /\ pc = "max_rate" =>
          \A k \in 1..Len(Drones) :
             Drones[k]["has_detachable_camera"] => IsNum(Drones[k]["hull_final_rate"])
    /\ pc = "extensions" =>
          /\ \A k \in 1..Len(Drones) : IsNum(Drones[k]["hull_premium"])
          /\ \A c \in 1..Len(Cameras) : IsNum(Cameras[c]["hull_premium"])
    /\ pc = "net" =>
          /\ \A k \in 1..Len(Drones) :
                /\ IsNum(Drones[k]["adjusted_hull_premium"])
                /\ IsNum(Drones[k]["tpl_layer_premium"])
          /\ \A c \in 1..Len(Cameras) : IsNum(Cameras[c]["adjusted_hull_premium"])
    /\ pc = "gross" => \A f \in PremComputed : IsNum(data["net_prem"][f])

(* C14 as stated: the five stages run one after another over the whole batch *)
StageOrderAsStated ==
    [][/\ StageOf(pc') >= StageOf(pc)
       /\ WriteOnceStep
       /\ ReadAfterWrite
       /\ ReadAfterWrite']_vars

(* C14: every step of main either raises or moves to the next position of   *)
(* the order hull(1), TPL(1), ..., hull(n), TPL(n), max-rate lookup, camera *)
(* pricing, extensions, net totals, gross totals; no step changes a         *)
(* computed field that already holds a value; and every field a step reads  *)
(* holds a number when the step is reached.                                 *)
StageOrderWriteOnce ==
    [][/\ \/ pc' = "raised"
          \/ Rank(pc', idx', Len(Drones')) = Rank(pc, idx, Len(Drones)) + 1
       /\ pc \notin {"raised", "done"}
       /\ WriteOnceStep
       /\ ReadAfterWrite
       /\ ReadAfterWrite']_vars

(* a pass over two or more drones and a camera has run every stage *)
StageOrderWitness ==
    /\ pc = "done"
    /\ Len(Drones) >= 2
    /\ Len(Drones) > data["max_drones_in_air"]
    /\ Len(Cameras) >= 1
    /\ \A f \in PremComputed : IsNum(data["gross_prem"][f])

====
